---------------------------- MODULE Spec2Model ----------------------------
(***************************************************************************)
(* Model of the codebase-to-text conversion engine                         *)
(* (src/projects/conversion_utils.py): CodebaseConverter walks a source    *)
(* tree, mirrors the non-excluded directories, converts or skips every     *)
(* file, writes CONVERSION_SUMMARY.txt, and create_conversion_zip packs    *)
(* the output tree.                                                        *)
(*                                                                         *)
(* A file or directory name is a sequence of one-character strings, a path *)
(* is a sequence of names relative to the source (or output) root, file    *)
(* content is a sequence of byte values.                                   *)
(***************************************************************************)
EXTENDS Integers, Sequences, FiniteSets, TLC

(***************************************************************************)
(* Bounds of the model.                                                    *)
(***************************************************************************)
\* largest number of files and directories below the source root
MaxNodes == 3
\* largest number of environment failures (I/O errors) injected in a behaviour;
\* they are injected in the first conversion of a tree, and a second
\* conversion is followed when the first one met none
MaxFaults == 1

\* number of runs of equal bytes a sniffed file is made of
MaxRuns == 2

\* largest number of files in the statistics a summary is written for
MaxSummaryFiles == 10

\* largest number of entries of conversion_errors a summary is written for
MaxSummaryErrors == 12

\* largest number of projects created in a behaviour
MaxProjects == 2

\* largest number of convert_project requests accepted in a behaviour
MaxConversions == 2

\* largest number of downloads of one project's archive
MaxDownloads == 1

(***************************************************************************)
(* Static configuration tables of CodebaseConverter.                       *)
(***************************************************************************)
EXCLUDED_DIRS ==
    { <<".", "g", "i", "t">>, <<".", "h", "g">>, <<".", "s", "v", "n">>,
      <<".", "b", "z", "r">>, <<"_", "_", "p", "y", "c", "a", "c", "h", "e", "_", "_">>, <<".", "p", "y", "t", "e", "s", "t", "_", "c", "a", "c", "h", "e">>,
      <<".", "t", "o", "x">>, <<"n", "o", "d", "e", "_", "m", "o", "d", "u", "l", "e", "s">>, <<".", "n", "p", "m">>,
      <<"d", "i", "s", "t">>, <<"b", "u", "i", "l", "d">>, <<".", "v", "s", "c", "o", "d", "e">>,
      <<".", "i", "d", "e", "a">>, <<".", "v", "s">>, <<"v", "e", "n", "d", "o", "r">>,
      <<"p", "a", "c", "k", "a", "g", "e", "s">>, <<".", "D", "S", "_", "S", "t", "o", "r", "e">>, <<"T", "h", "u", "m", "b", "s", ".", "d", "b">>,
      <<"v", "e", "n", "v">>, <<"e", "n", "v">>, <<".", "e", "n", "v">>,
      <<"t", "a", "r", "g", "e", "t">>, <<"b", "i", "n">>, <<"o", "b", "j">>,
      <<".", "g", "r", "a", "d", "l", "e">>, <<".", "m", "2">>, <<"c", "o", "v", "e", "r", "a", "g", "e">>,
      <<".", "n", "y", "c", "_", "o", "u", "t", "p", "u", "t">> }

EXCLUDED_EXTENSIONS ==
    { <<".", "e", "x", "e">>, <<".", "d", "l", "l">>, <<".", "s", "o">>,
      <<".", "d", "y", "l", "i", "b">>, <<".", "a">>, <<".", "l", "i", "b">>,
      <<".", "o">>, <<".", "o", "b", "j">>, <<".", "b", "i", "n">>,
      <<".", "z", "i", "p">>, <<".", "t", "a", "r">>, <<".", "g", "z">>,
      <<".", "b", "z", "2">>, <<".", "x", "z">>, <<".", "7", "z">>,
      <<".", "r", "a", "r">>, <<".", "i", "s", "o">>, <<".", "j", "p", "g">>,
      <<".", "j", "p", "e", "g">>, <<".", "p", "n", "g">>, <<".", "g", "i", "f">>,
      <<".", "b", "m", "p">>, <<".", "s", "v", "g">>, <<".", "i", "c", "o">>,
      <<".", "w", "e", "b", "p">>, <<".", "t", "i", "f", "f">>, <<".", "m", "p", "4">>,
      <<".", "a", "v", "i">>, <<".", "m", "o", "v">>, <<".", "w", "m", "v">>,
      <<".", "f", "l", "v">>, <<".", "w", "e", "b", "m">>, <<".", "m", "k", "v">>,
      <<".", "m", "4", "v">>, <<".", "m", "p", "3">>, <<".", "w", "a", "v">>,
      <<".", "f", "l", "a", "c">>, <<".", "a", "a", "c">>, <<".", "o", "g", "g">>,
      <<".", "w", "m", "a">>, <<".", "m", "4", "a">>, <<".", "p", "d", "f">>,
      <<".", "d", "o", "c">>, <<".", "d", "o", "c", "x">>, <<".", "x", "l", "s">>,
      <<".", "x", "l", "s", "x">>, <<".", "p", "p", "t">>, <<".", "p", "p", "t", "x">>,
      <<".", "t", "t", "f">>, <<".", "o", "t", "f">>, <<".", "w", "o", "f", "f">>,
      <<".", "w", "o", "f", "f", "2">>, <<".", "e", "o", "t">>, <<".", "d", "b">>,
      <<".", "s", "q", "l", "i", "t", "e">>, <<".", "s", "q", "l", "i", "t", "e", "3">>, <<".", "m", "d", "b">>,
      <<".", "j", "a", "r">>, <<".", "w", "a", "r">>, <<".", "e", "a", "r">>,
      <<".", "c", "l", "a", "s", "s">>, <<".", "p", "y", "c">>, <<".", "p", "y", "o">>,
      <<".", "p", "y", "d">>, <<".", "s", "w", "f">>, <<".", "f", "l", "a">>,
      <<".", "p", "s", "d">>, <<".", "a", "i">>, <<".", "s", "k", "e", "t", "c", "h">> }

\* 10 * 1024 * 1024, the size limit of _process_file
MAX_FILE_SIZE == 10485760

\* variant of encodings_to_try: cp1252 is tried before latin-1
encodings_reordered == << "utf-8", "utf-8-sig", "cp1252", "latin-1", "iso-8859-1" >>

\* encodings_to_try of _convert_file_to_text, in order
encodings_to_try == << "utf-8", "utf-8-sig", "latin-1", "cp1252", "iso-8859-1" >>

(***************************************************************************)
(* pathlib / str helpers.                                                  *)
(***************************************************************************)
UpperCase == << "A", "B", "C", "D", "E", "F", "G", "H", "I", "J", "K", "L", "M",
                "N", "O", "P", "Q", "R", "S", "T", "U", "V", "W", "X", "Y", "Z" >>
LowerCase == << "a", "b", "c", "d", "e", "f", "g", "h", "i", "j", "k", "l", "m",
                "n", "o", "p", "q", "r", "s", "t", "u", "v", "w", "x", "y", "z" >>

\* str.lower() on one character
LowerChar(c) ==
    IF \E i \in 1..26 : UpperCase[i] = c
    THEN LowerCase[CHOOSE i \in 1..26 : UpperCase[i] = c]
    ELSE c

\* str.lower()
Lower(s) == [i \in 1..Len(s) |-> LowerChar(s[i])]

\* str.rfind('.'), 1-based; 0 when there is no dot
RFindDot(name) ==
    LET dots == { i \in 1..Len(name) : name[i] = "." }
    IN  IF dots = {} THEN 0 ELSE CHOOSE i \in dots : \A j \in dots : j <= i

\* PurePath.suffix: the final component's last suffix, '' if the only dot
\* leads or ends the name
Suffix(name) ==
    LET i == RFindDot(name)
    IN  IF 1 < i /\ i < Len(name) THEN SubSeq(name, i, Len(name)) ELSE << >>

\* PurePath.stem: the final component without its suffix
Stem(name) ==
    LET i == RFindDot(name)
    IN  IF 1 < i /\ i < Len(name) THEN SubSeq(name, 1, i - 1) ELSE name

\* str.startswith('.')
StartsWithDot(name) == Len(name) > 0 /\ name[1] = "."

DigitChars == << "0", "1", "2", "3", "4", "5", "6", "7", "8", "9" >>

\* str(counter) inside the f-string of the collision loop
RECURSIVE IntToStr(_)
IntToStr(n) ==
    IF n < 10 THEN << DigitChars[n + 1] >>
    ELSE IntToStr(n \div 10) \o << DigitChars[(n % 10) + 1] >>

DotTxt == << ".", "t", "x", "t" >>

\* Path.parent / the path one level up
Parent(p) == SubSeq(p, 1, Len(p) - 1)

\* Path.name
BaseName(p) == p[Len(p)]

(***************************************************************************)
(* Source trees.  A node is a regular file (size as stat reports it, data  *)
(* the bytes at the start of the file) or a directory.  The catalogue      *)
(* holds the files and directories the guards, the sniffing, the naming    *)
(* and the exclusion rule tell apart.                                      *)
(***************************************************************************)
FileEntry(n, sz, d) == [name |-> n, type |-> "file", size |-> sz, data |-> d]
DirEntry(n) == [name |-> n, type |-> "dir", size |-> 0, data |-> << >>]

Catalogue ==
    { FileEntry(<< "a", ".", "t", "x", "t" >>, 3, << 104, 105, 10 >>),
      FileEntry(<< "a", ".", "m", "d" >>, 3, << 35, 13, 10 >>),
      FileEntry(<< "a", "_", "1", ".", "c" >>, 2, << 233, 10 >>),
      FileEntry(<< "u", ".", "c" >>, 2, << 129, 10 >>),
      FileEntry(<< "C", "O", "N", "V", "E", "R", "S", "I", "O", "N", "_",
                   "S", "U", "M", "M", "A", "R", "Y", ".", "m", "d" >>, 3, << 35, 32, 10 >>),
      FileEntry(<< "p", ".", "P", "N", "G" >>, 3, << 137, 80, 0 >>),
      FileEntry(<< "h", ".", "c" >>, MAX_FILE_SIZE + 1, << 47, 47, 10 >>),
      FileEntry(<< "l", ".", "c" >>, MAX_FILE_SIZE, << 47, 47, 10 >>),
      FileEntry(<< "z", ".", "c" >>, 3, << 65, 0, 66 >>),
      DirEntry(<< "s" >>),
      DirEntry(<< "b", "i", "n" >>),
      DirEntry(<< ".", "v" >>),
      DirEntry(<< "a", ".", "t", "x", "t" >>) }

Node(e) == [type |-> e.type, size |-> e.size, data |-> e.data]

\* the directories of tree t, the root (the empty path) included
DirPaths(t) == { << >> } \cup { p \in DOMAIN t : t[p].type = "dir" }

\* every tree obtained from t by adding one catalogue entry to one directory
Grow(t) ==
    UNION { { (Append(d, e.name) :> Node(e)) @@ t :
                e \in { c \in Catalogue : Append(d, c.name) \notin DOMAIN t } } :
            d \in DirPaths(t) }

RECURSIVE TreesUpTo(_)
TreesUpTo(n) ==
    IF n = 0 THEN { << >> }
    ELSE LET smaller == TreesUpTo(n - 1)
         IN  smaller \cup UNION { Grow(t) : t \in smaller }

SourceTrees == TreesUpTo(MaxNodes)

(***************************************************************************)
(* Decoding, as open(source_file, 'r', encoding=...).read() does it.       *)
(* A decoder returns [ok, text]: text is the sequence of code points.      *)
(***************************************************************************)
IsCont(b) == 128 <= b /\ b <= 191

\* number of bytes of the UTF-8 sequence that starts b, 0 if b cannot start one
Utf8Len(b) ==
    IF Len(b) >= 1 /\ b[1] < 128 THEN 1
    ELSE IF Len(b) >= 2 /\ 194 <= b[1] /\ b[1] <= 223 /\ IsCont(b[2]) THEN 2
    ELSE IF /\ Len(b) >= 3 /\ 224 <= b[1] /\ b[1] <= 239
            /\ IsCont(b[2]) /\ IsCont(b[3])
            /\ (b[1] = 224 => b[2] >= 160)
            /\ (b[1] = 237 => b[2] <= 159) THEN 3
    ELSE IF /\ Len(b) >= 4 /\ 240 <= b[1] /\ b[1] <= 244
            /\ IsCont(b[2]) /\ IsCont(b[3]) /\ IsCont(b[4])
            /\ (b[1] = 240 => b[2] >= 144)
            /\ (b[1] = 244 => b[2] <= 143) THEN 4
    ELSE 0

Utf8CodePoint(b, n) ==
    CASE n = 1 -> b[1]
      [] n = 2 -> (b[1] - 192) * 64 + (b[2] - 128)
      [] n = 3 -> (b[1] - 224) * 4096 + (b[2] - 128) * 64 + (b[3] - 128)
      [] n = 4 -> (b[1] - 240) * 262144 + (b[2] - 128) * 4096
                  + (b[3] - 128) * 64 + (b[4] - 128)

\* bytes.decode('utf-8'), strict
RECURSIVE DecodeUtf8(_)
DecodeUtf8(b) ==
    IF b = << >> THEN [ok |-> TRUE, text |-> << >>]
    ELSE LET n == Utf8Len(b)
         IN  IF n = 0 THEN [ok |-> FALSE, text |-> << >>]
             ELSE LET rest == DecodeUtf8(SubSeq(b, n + 1, Len(b)))
                  IN  [ok |-> rest.ok,
                       text |-> IF rest.ok
                                THEN << Utf8CodePoint(b, n) >> \o rest.text
                                ELSE << >>]

\* the UTF-8 byte order mark
BOM == << 239, 187, 191 >>

\* bytes.decode('utf-8-sig'): utf-8 with a leading BOM dropped
DecodeUtf8Sig(b) ==
    IF Len(b) >= 3 /\ SubSeq(b, 1, 3) = BOM
    THEN DecodeUtf8(SubSeq(b, 4, Len(b)))
    ELSE DecodeUtf8(b)

\* bytes.decode('latin-1') and 'iso-8859-1': every byte is its code point
DecodeLatin1(b) == [ok |-> TRUE, text |-> b]

\* code points of the cp1252 bytes 0x80..0x9F, 0 where the byte is undefined
Cp1252High ==
    << 8364, 0, 8218, 402, 8222, 8230, 8224, 8225, 710, 8240, 352, 8249, 338,
       0, 381, 0, 0, 8216, 8217, 8220, 8221, 8226, 8211, 8212, 732, 8482, 353,
       8250, 339, 0, 382, 376 >>

\* bytes.decode('cp1252')
DecodeCp1252(b) ==
    IF \E i \in 1..Len(b) : IsCont(b[i]) /\ b[i] <= 159 /\ Cp1252High[b[i] - 127] = 0
    THEN [ok |-> FALSE, text |-> << >>]
    ELSE [ok |-> TRUE,
          text |-> [i \in 1..Len(b) |->
                      IF 128 <= b[i] /\ b[i] <= 159
                      THEN Cp1252High[b[i] - 127] ELSE b[i]]]

Decode(encoding, b) ==
    CASE encoding = "utf-8" -> DecodeUtf8(b)
      [] encoding = "utf-8-sig" -> DecodeUtf8Sig(b)
      [] encoding = "cp1252" -> DecodeCp1252(b)
      [] OTHER -> DecodeLatin1(b)

\* text-mode read with newline=None: "\r\n" and "\r" become "\n"
RECURSIVE UniversalNewlines(_)
UniversalNewlines(t) ==
    IF t = << >> THEN << >>
    ELSE IF t[1] = 13
         THEN IF Len(t) >= 2 /\ t[2] = 10
              THEN << 10 >> \o UniversalNewlines(SubSeq(t, 3, Len(t)))
              ELSE << 10 >> \o UniversalNewlines(Tail(t))
         ELSE << t[1] >> \o UniversalNewlines(Tail(t))

(***************************************************************************)
(* _is_binary_file                                                         *)
(***************************************************************************)
\* f.read(8192)
SNIFF_BYTES == 8192

text_chars == { 7, 8, 9, 10, 12, 13, 27 } \cup ((32..255) \ { 127 })

SniffChunk(data) ==
    SubSeq(data, 1, IF Len(data) < SNIFF_BYTES THEN Len(data) ELSE SNIFF_BYTES)

\* variant of ChunkIsBinary: ">= 0.30" for "> 0.30"
ChunkIsBinaryFromThreshold(chunk) ==
    IF chunk = << >> THEN FALSE
    ELSE IF \E i \in 1..Len(chunk) : chunk[i] = 0 THEN TRUE
    ELSE LET non_text_count ==
                 Cardinality({ i \in 1..Len(chunk) : chunk[i] \notin text_chars })
         IN  10 * non_text_count >= 3 * Len(chunk)

\* the verdict on the chunk read: no byte is not binary, a null byte is
\* binary, else binary iff non_text_count / len(chunk) > 0.30
ChunkIsBinary(chunk) ==
    IF chunk = << >> THEN FALSE
    ELSE IF \E i \in 1..Len(chunk) : chunk[i] = 0 THEN TRUE
    ELSE LET non_text_count ==
                 Cardinality({ i \in 1..Len(chunk) : chunk[i] \notin text_chars })
         IN  10 * non_text_count > 3 * Len(chunk)

\* variant of UnreadableIsBinary: an unreadable file passes for text
UnreadableIsText == FALSE

\* what the except clause of _is_binary_file returns when the file cannot
\* be opened or read
UnreadableIsBinary == TRUE

\* the failures inside the try block of _is_binary_file: open(source_file,
\* 'rb') fails, f.read(8192) fails
SniffFaults == { "open", "sniff" }

\* _is_binary_file(source_file)
IsBinaryFile(node, fault) ==
    IF fault \in SniffFaults THEN UnreadableIsBinary
    ELSE ChunkIsBinary(SniffChunk(node.data))

(***************************************************************************)
(* State.                                                                  *)
(***************************************************************************)
VARIABLES
    tree,       \* the source tree: path |-> node, fixed during a behaviour
    pc,         \* "init", "walk", "returned", "raised", "zipped", "zip_failed"
    stack,      \* the active calls of _process_directory, innermost last
    stats,      \* self.stats of the converter
    out,        \* the output tree under converted_project_path: path |-> entry
    processed,  \* the source files passed to _process_file so far
    faultLog,   \* the environment failures injected so far
    zip,        \* the archive written by create_conversion_zip: arcname |-> entry
    run,        \* 1 for the first conversion of the tree, 2 for the second
    previous,   \* stats and output tree of the first conversion, once over
    call,       \* a function examined on its own: its name and arguments
    result,     \* what that call returned, once it has returned
    projects,   \* the Project rows, with the ConversionResult of each
    requests,   \* the convert_project requests accepted so far
    tmpfiles    \* the archives in tempfile.gettempdir(): path |-> writer

vars ==
    << tree, pc, stack, stats, out, processed, faultLog, zip, run, previous,
       call, result, projects, requests, tmpfiles >>

\* what the conversion of one source tree leaves alone
besideVars == << call, result, projects, requests, tmpfiles >>

\* self.stats as __init__ sets it
InitStats ==
    [ total_files_processed |-> 0,
      files_converted |-> 0,
      files_skipped_binary |-> 0,
      files_skipped_encoding |-> 0,
      files_skipped_excluded |-> 0,
      total_size_bytes |-> 0,
      directories_processed |-> 0,
      conversion_errors |-> << >> ]

\* a function with no argument: an output root that does not exist, an
\* archive that was not written
Nothing == << >>

\* no function is examined on its own
NoCall == [fn |-> "none"]

NotReturned == [returned |-> FALSE]

\* no project has been created
NoProject == projects = << >> /\ requests = << >> /\ tmpfiles = << >>

Returned(value) == [returned |-> TRUE, value |-> value]

\* reading the source as text fails at every attempt of the loop over
\* encodings_to_try, or at some of them only: at the third and the fifth,
\* the attempts under the two encodings that cannot fail to decode
ReadFaults == { "read", "read_fallbacks" }

\* the failures of the environment the model injects while a file is
\* processed: stat fails; the source cannot be opened; reading it fails;
\* the target cannot be opened for writing
FileFaults == { "stat", "open", "write" } \cup ReadFaults

\* the attempts (positions in encodings_to_try) at which open(source_file,
\* 'r', ...) or f.read() raises an exception that is no UnicodeDecodeError
FailingReads(fault) ==
    CASE fault \in { "open", "read" } -> 1..Len(encodings_to_try)
      [] fault = "read_fallbacks" -> { 3, 5 }
      [] OTHER -> {}

\* an exception met while a directory is listed or mirrored:
\* PermissionError or any other Exception
DirFaults == { "perm", "other" }

MayFail == run = 1 /\ Cardinality(faultLog) < MaxFaults

Fault(path, op) == [run |-> run, path |-> path, op |-> op]

(***************************************************************************)
(* Output entries.                                                         *)
(***************************************************************************)
DirOut(src) == [type |-> "dir", kind |-> "dir", owner |-> src]

\* what _convert_file_to_text writes: the header of _create_file_header
\* (original file, file size, encoding; no timestamp), which ends with a
\* blank line, and then `text`, the content as it was read
ConvertedOut(src, node, encoding, text) ==
    [type |-> "file", kind |-> "converted", owner |-> src, size |-> node.size,
     encoding |-> encoding, text |-> text]

\* the text of _create_placeholder_file (no timestamp)
PlaceholderOut(src, node, reason) ==
    [type |-> "file", kind |-> "placeholder", owner |-> src, size |-> node.size,
     reason |-> reason]

\* variant of ErrorsSection: ">= 10" for "> 10"
ErrorsSectionFromTen(errors) ==
    IF errors = << >> THEN << >>
    ELSE << [line |-> "heading"] >>
         \o [i \in 1..(IF Len(errors) < 10 THEN Len(errors) ELSE 10) |->
               [line |-> "error", error |-> errors[i]]]
         \o (IF Len(errors) >= 10
             THEN << [line |-> "more", count |-> Len(errors) - 10] >>
             ELSE << >>)

\* lines 402-407: the lines of the summary that follow the statistics:
\* "## Conversion Errors", "- <error>" for each of conversion_errors[:10],
\* "... and <count> more errors"
ErrorsSection(errors) ==
    IF errors = << >> THEN << >>
    ELSE << [line |-> "heading"] >>
         \o [i \in 1..(IF Len(errors) < 10 THEN Len(errors) ELSE 10) |->
               [line |-> "error", error |-> errors[i]]]
         \o (IF Len(errors) > 10
             THEN << [line |-> "more", count |-> Len(errors) - 10] >>
             ELSE << >>)

\* the text of CONVERSION_SUMMARY.txt: the statistics, the line
\* "- Success Rate: ...%" and the errors section (no timestamp, no duration)
SummaryOut(s, rate) ==
    [type |-> "file", kind |-> "summary", owner |-> << >>, stats |-> s,
     success_rate |-> rate, errors |-> ErrorsSection(s.conversion_errors)]

SummaryName ==
    << "C", "O", "N", "V", "E", "R", "S", "I", "O", "N", "_",
       "S", "U", "M", "M", "A", "R", "Y", ".", "t", "x", "t" >>

Exists(o, p) == p \in DOMAIN o

Put(o, p, entry) == (p :> entry) @@ o

(***************************************************************************)
(* _process_file and what it calls.                                        *)
(***************************************************************************)
\* self.stats['conversion_errors'].append(...)
RecordError(s, kind, path) ==
    [s EXCEPT !.conversion_errors = Append(@, [kind |-> kind, path |-> path])]

\* variant of CountVisited: the increment of line 177 is missing
NotCounted(s) == s

\* line 177: self.stats['total_files_processed'] += 1
CountVisited(s) == [s EXCEPT !.total_files_processed = @ + 1]

\* variant of AddSize: the size is not added
SizeNotAdded(s, file_size) == s

\* line 182: self.stats['total_size_bytes'] += file_size
AddSize(s, file_size) == [s EXCEPT !.total_size_bytes = @ + file_size]

\* variant of ExceedsSizeLimit: ">=" for ">"
ExceedsSizeLimitInclusive(size) == size >= MAX_FILE_SIZE

\* line 185: file_size > 10 * 1024 * 1024
ExceedsSizeLimit(size) == size > MAX_FILE_SIZE

\* variant of HasExcludedExtension: the suffix is compared as written
ExtensionCaseSensitive(name) == Suffix(name) \in EXCLUDED_EXTENSIONS

\* lines 191-192: source_file.suffix.lower() in EXCLUDED_EXTENSIONS
HasExcludedExtension(name) == Lower(Suffix(name)) \in EXCLUDED_EXTENSIONS

SkipBinary(s) == [s EXCEPT !.files_skipped_binary = @ + 1]

RECURSIVE NumberedTarget(_, _, _, _)

\* variant of NumberedTarget: the counter advances by two
NumberedWithGap(o, target_dir, base_filename, counter) ==
    LET target_file ==
            Append(target_dir, base_filename \o << "_" >> \o IntToStr(counter) \o DotTxt)
    IN  IF Exists(o, target_file)
        THEN NumberedTarget(o, target_dir, base_filename, counter + 2)
        ELSE target_file

\* lines 202-206: the first of base_1.txt, base_2.txt, ... that does not exist
NumberedTarget(o, target_dir, base_filename, counter) ==
    LET target_file ==
            Append(target_dir, base_filename \o << "_" >> \o IntToStr(counter) \o DotTxt)
    IN  IF Exists(o, target_file)
        THEN NumberedTarget(o, target_dir, base_filename, counter + 1)
        ELSE target_file

\* variant of TargetFile: the collision loop of lines 202-206 is missing
FirstTargetAlways(o, target_dir, name) == Append(target_dir, Stem(name) \o DotTxt)

\* lines 198-206: the target path of a source file
TargetFile(o, target_dir, name) ==
    LET base_filename == Stem(name)
        original_target == Append(target_dir, base_filename \o DotTxt)
    IN  IF Exists(o, original_target)
        THEN NumberedTarget(o, target_dir, base_filename, 1)
        ELSE original_target

\* variant of CreatePlaceholderFile: nothing is written
NoPlaceholder(o, src, node, target_file, reason, fault) == o

\* _create_placeholder_file: a failure to write is logged, not raised
CreatePlaceholderFile(o, src, node, target_file, reason, fault) ==
    IF fault = "write" THEN o
    ELSE Put(o, target_file, PlaceholderOut(src, node, reason))

\* lines 239-259: the loop over encodings_to_try, from the i-th on
RECURSIVE TryEncodings(_, _, _, _, _, _)
TryEncodings(o, src, node, target_file, fault, i) ==
    IF i > Len(encodings_to_try) THEN [ok |-> FALSE, out |-> o]
    ELSE LET encoding == encodings_to_try[i]
             read_fails == i \in FailingReads(fault)
             content == Decode(encoding, node.data)
         IN  IF read_fails \/ ~content.ok
             THEN TryEncodings(o, src, node, target_file, fault, i + 1)
             ELSE IF fault = "write"
             THEN TryEncodings(o, src, node, target_file, fault, i + 1)
             ELSE [ok |-> TRUE,
                   out |-> Put(o, target_file,
                               ConvertedOut(src, node, encoding,
                                            UniversalNewlines(content.text)))]

\* _convert_file_to_text: [ok |-> the value returned, out |-> the output tree]
ConvertFileToText(o, src, node, target_file, fault) ==
    IF IsBinaryFile(node, fault)
    THEN [ok |-> FALSE,
          out |-> CreatePlaceholderFile(o, src, node, target_file, "Binary file", fault)]
    ELSE LET r == TryEncodings(o, src, node, target_file, fault, 1)
         IN  IF r.ok THEN r
             ELSE [ok |-> FALSE,
                   out |-> CreatePlaceholderFile(r.out, src, node, target_file,
                               "Could not decode with any encoding", fault)]

\* variant of RecordOutcome: a conversion that fails is not counted
FailureNotCounted(s, ok) ==
    IF ok THEN [s EXCEPT !.files_converted = @ + 1] ELSE s

\* lines 209-212
RecordOutcome(s, ok) ==
    IF ok THEN [s EXCEPT !.files_converted = @ + 1]
    ELSE [s EXCEPT !.files_skipped_encoding = @ + 1]

\* _process_file(source_file, target_dir): [stats, out] after the call
ProcessFile(s, o, src, node, target_dir, fault) ==
    LET s1 == CountVisited(s)
    IN  IF fault = "stat"
        THEN [stats |-> RecordError(s1, "File error", src), out |-> o]
        ELSE LET s2 == AddSize(s1, node.size)
             IN  IF ExceedsSizeLimit(node.size)
                 THEN [stats |-> SkipBinary(s2), out |-> o]
                 ELSE IF HasExcludedExtension(BaseName(src))
                 THEN [stats |-> SkipBinary(s2), out |-> o]
                 ELSE LET target_file == TargetFile(o, target_dir, BaseName(src))
                          r == ConvertFileToText(o, src, node, target_file, fault)
                      IN  [stats |-> RecordOutcome(s2, r.ok), out |-> r.out]

(***************************************************************************)
(* _process_directory                                                      *)
(***************************************************************************)
\* variants of IsExcludedDir: one half of the test of line 147 is missing
ExcludedDirsOnly(name) == name \in EXCLUDED_DIRS
DotOnly(name) == StartsWithDot(name)

\* line 147: item.name in self.EXCLUDED_DIRS or item.name.startswith('.')
IsExcludedDir(name) == name \in EXCLUDED_DIRS \/ StartsWithDot(name)

\* source_dir.iterdir(): the names of the entries of directory d
ChildNames(t, d) ==
    { BaseName(p) : p \in { q \in DOMAIN t : Len(q) = Len(d) + 1 /\ Parent(q) = d } }

Frame(src, tgt, todo) == [src |-> src, tgt |-> tgt, todo |-> todo]

Top == stack[Len(stack)]

Callers == SubSeq(stack, 1, Len(stack) - 1)

\* a call whose loop has no entry left returns to its caller
RECURSIVE Unwind(_)
Unwind(stk) ==
    IF stk # << >> /\ stk[Len(stk)].todo = {}
    THEN Unwind(SubSeq(stk, 1, Len(stk) - 1))
    ELSE stk

\* the stack with the entry `name` of the innermost loop consumed
Consumed(name) == Append(Callers, [Top EXCEPT !.todo = @ \ { name }])

\* variant of DirHandlerCatches: the "except Exception" clause is missing
CatchesPermissionOnly(kind) == kind = "perm"

\* lines 162-167: "except PermissionError" and "except Exception" catch
\* every exception raised inside the try block
DirHandlerCatches(kind) == kind \in { "perm", "other" }

\* variant of HandleDirError: the exception is swallowed, nothing appended
DirErrorDropped(s, source_dir, kind) == s

\* lines 164 and 167: the entry appended for an exception of this kind
HandleDirError(s, source_dir, kind) ==
    RecordError(s, IF kind = "perm" THEN "Permission denied" ELSE "Directory error",
                source_dir)

\* variant of Throw: the exception also ends the loop of the caller
ThrowPastCaller(callers, s, source_dir, kind) ==
    /\ pc' = "walk"
    /\ stack' = Unwind(SubSeq(callers, 1, Len(callers) - 1))
    /\ stats' = HandleDirError(s, source_dir, kind)

\* An exception of `kind` is raised inside _process_directory(source_dir),
\* called from `callers`: the handler records it and the call returns, or
\* (were it not caught) it leaves every caller, which have the same handler.
Throw(callers, s, source_dir, kind) ==
    IF DirHandlerCatches(kind)
    THEN /\ pc' = "walk"
         /\ stack' = Unwind(callers)
         /\ stats' = HandleDirError(s, source_dir, kind)
    ELSE /\ pc' = "raised"
         /\ stack' = << >>
         /\ stats' = s

\* _process_directory(source_dir, target_dir) is called from `callers`:
\* listing the directory raises (kind), or the loop over its entries begins
Call(callers, s, source_dir, target_dir, kind) ==
    IF kind = "none"
    THEN /\ pc' = "walk"
         /\ stack' = Unwind(Append(callers,
                            Frame(source_dir, target_dir, ChildNames(tree, source_dir))))
         /\ stats' = s
    ELSE Throw(callers, s, source_dir, kind)

\* the kinds of failure the environment may choose now
Kinds(S) == { "none" } \cup (IF MayFail THEN S ELSE {})

Logged(path, op, kind) ==
    IF kind = "none" THEN faultLog ELSE faultLog \cup { Fault(path, op) }

(***************************************************************************)
(* Actions.                                                                *)
(***************************************************************************)
\* convert_repository_to_text, lines 106-115, fails: the stale output
\* directory cannot be removed or the new one cannot be created
StartFails ==
    /\ pc = "init"
    /\ MayFail
    /\ pc' = "raised"
    /\ faultLog' = faultLog \cup { Fault(<< >>, "root") }
    /\ UNCHANGED << tree, stack, stats, out, processed, zip, run, previous, besideVars >>

\* convert_repository_to_text, lines 106-120: the output root is created and
\* _process_directory(source_directory, converted_project_path) is called
Start ==
    /\ pc = "init"
    /\ out' = Put(Nothing, << >>, DirOut(<< >>))
    /\ \E kind \in Kinds(DirFaults) :
         /\ Call(<< >>, stats, << >>, << >>, kind)
         /\ faultLog' = Logged(<< >>, "list", kind)
    /\ UNCHANGED << tree, processed, zip, run, previous, besideVars >>

\* lines 145-149: the next entry is an excluded directory
SkipDirectory ==
    /\ pc = "walk" /\ stack # << >>
    /\ \E name \in Top.todo :
         /\ tree[Append(Top.src, name)].type = "dir"
         /\ IsExcludedDir(name)
         /\ stack' = Unwind(Consumed(name))
    /\ UNCHANGED << tree, pc, stats, out, processed, faultLog, zip, run, previous, besideVars >>

\* lines 151-157: the next entry is a directory that is mirrored and entered
MirrorDirectory ==
    /\ pc = "walk" /\ stack # << >>
    /\ \E name \in Top.todo :
         LET item == Append(Top.src, name)
             new_target_dir == Append(Top.tgt, name)
             \* mkdir(exist_ok=True) raises FileExistsError on a file
             file_exists == Exists(out, new_target_dir) /\ out[new_target_dir].type = "file"
         IN  /\ tree[item].type = "dir"
             /\ ~IsExcludedDir(name)
             /\ \E op \in { "mkdir", "list" } : \E kind \in Kinds(DirFaults) :
                  /\ op = "mkdir" => kind # "none"
                  /\ file_exists => (op = "list" /\ kind = "none")
                  /\ faultLog' = Logged(item, op, kind)
                  /\ IF file_exists
                     THEN /\ Throw(Callers, stats, Top.src, "other")
                          /\ out' = out
                     ELSE IF op = "mkdir"
                     THEN /\ Throw(Callers, stats, Top.src, kind)
                          /\ out' = out
                     ELSE /\ out' = Put(out, new_target_dir, DirOut(item))
                          /\ Call(Consumed(name),
                                  [stats EXCEPT !.directories_processed = @ + 1],
                                  item, new_target_dir, kind)
    /\ UNCHANGED << tree, processed, zip, run, previous, besideVars >>

\* the failures that can show while _process_file handles this file: a file
\* the guards stop is only stat'ed, a file the sniffing takes for binary is
\* not read as text
FaultsFor(item) ==
    IF ExceedsSizeLimit(tree[item].size) \/ HasExcludedExtension(BaseName(item))
    THEN { "stat" }
    ELSE IF ChunkIsBinary(SniffChunk(tree[item].data))
    THEN FileFaults \ ReadFaults
    ELSE FileFaults

\* lines 159-160: the next entry is a file: _process_file(item, target_dir)
VisitFile ==
    /\ pc = "walk" /\ stack # << >>
    /\ \E name \in Top.todo :
         LET item == Append(Top.src, name)
         IN  /\ tree[item].type = "file"
             /\ \E fault \in Kinds(FaultsFor(item)) :
                  LET r == ProcessFile(stats, out, item, tree[item], Top.tgt, fault)
                  IN  /\ stats' = r.stats
                      /\ out' = r.out
                      /\ faultLog' = Logged(item, fault, fault)
             /\ processed' = processed \cup { item }
             /\ stack' = Unwind(Consumed(name))
    /\ UNCHANGED << tree, pc, zip, run, previous, besideVars >>

\* variant of SuccessRateTenths: the quotient is cut, not rounded
SuccessRateTruncated(s) ==
    LET total == IF s.total_files_processed > 1 THEN s.total_files_processed ELSE 1
    IN  { (s.files_converted * 1000) \div total }

\* line 393: (files_converted / max(total_files_processed, 1)) * 100 as
\* ":.1f" renders it, in tenths of a percent.  The float is rounded to the
\* nearest tenth; where the exact quotient lies halfway between two tenths
\* (that takes a total that is a multiple of 16) the float product lies on
\* the midpoint or one ulp beside it, and either neighbour can be printed.
SuccessRateTenths(s) ==
    LET total == IF s.total_files_processed > 1 THEN s.total_files_processed ELSE 1
        floor == (s.files_converted * 1000) \div total
        rest == (s.files_converted * 1000) % total
    IN  IF 2 * rest < total THEN { floor }
        ELSE IF 2 * rest > total THEN { floor + 1 }
        ELSE { floor, floor + 1 }

\* f"{...:.1f}%"
SuccessRateLine(tenths) ==
    IntToStr(tenths \div 10) \o << "." >> \o IntToStr(tenths % 10) \o << "%" >>

SuccessRateLines(s) == { SuccessRateLine(k) : k \in SuccessRateTenths(s) }

\* _create_conversion_summary: open(summary_file, 'w') and write; a failure
\* is logged and not raised
CreateConversionSummary(o, s, fails, rate) ==
    LET summary_file == << SummaryName >>
    IN  IF fails \/ (Exists(o, summary_file) /\ o[summary_file].type = "dir")
        THEN o
        ELSE Put(o, summary_file, SummaryOut(s, rate))

\* convert_repository_to_text, lines 122-133: the traversal is over, the
\* summary is written and (path, stats) is returned
Finish ==
    /\ pc = "walk" /\ stack = << >>
    /\ \E kind \in Kinds({ "other" }) : \E rate \in SuccessRateLines(stats) :
         /\ out' = CreateConversionSummary(out, stats, kind # "none", rate)
         /\ faultLog' = Logged(<< SummaryName >>, "summary", kind)
    /\ pc' = "returned"
    /\ UNCHANGED << tree, stack, stats, processed, zip, run, previous, besideVars >>

(***************************************************************************)
(* create_conversion_zip                                                   *)
(***************************************************************************)
\* converted_project_path, an absolute path
ConvertedPath == << << "t", "m", "p" >>, << "r", "_", "c", "o", "n", "v", "e", "r", "t", "e", "d" >> >>

\* the absolute path of an output entry
Absolute(p) == ConvertedPath \o p

\* converted_path.rglob('*'): every path below the output root
RGlob(o) == { Absolute(p) : p \in DOMAIN o \ { << >> } }

\* file_path.relative_to(converted_path)
RelativeTo(file_path, base) == SubSeq(file_path, Len(base) + 1, Len(file_path))

\* line 435: only the paths that are files are written to the archive
IsArchived(entry) == entry.type = "file"

\* lines 434-438: arcname |-> the content written for it
ZipEntries(o) ==
    LET files == { f \in RGlob(o) : IsArchived(o[RelativeTo(f, ConvertedPath)]) }
        arcnames == { RelativeTo(f, ConvertedPath) : f \in files }
    IN  [a \in arcnames |-> o[a]]

\* create_conversion_zip(converted_dir, project_name), called by
\* perform_codebase_conversion after the conversion returned
CreateZip ==
    /\ pc = "returned"
    /\ \E kind \in Kinds({ "other" }) :
         /\ faultLog' = Logged(<< >>, "zip", kind)
         /\ IF kind = "none"
            THEN pc' = "zipped" /\ zip' = ZipEntries(out)
            ELSE pc' = "zip_failed" /\ zip' = Nothing
    /\ UNCHANGED << tree, stack, stats, out, processed, run, previous, besideVars >>

\* A second conversion of the same source tree into a fresh output root:
\* perform_codebase_conversion builds a new converter in a new temporary
\* directory.
ConvertAgain ==
    /\ pc = "zipped"
    /\ run = 1
    /\ faultLog = {}
    /\ run' = 2
    /\ previous' = [pc |-> pc, stats |-> stats, out |-> out]
    /\ pc' = "init"
    /\ stack' = << >>
    /\ stats' = InitStats
    /\ out' = Nothing
    /\ processed' = {}
    /\ zip' = Nothing
    /\ UNCHANGED << tree, faultLog, besideVars >>

Init ==
    /\ tree \in SourceTrees
    /\ pc = "init"
    /\ stack = << >>
    /\ stats = InitStats
    /\ out = Nothing
    /\ processed = {}
    /\ faultLog = {}
    /\ zip = Nothing
    /\ run = 1
    /\ previous = [pc |-> "init", stats |-> InitStats, out |-> Nothing]
    /\ call = NoCall
    /\ result = NotReturned
    /\ NoProject

Next ==
    \/ StartFails
    \/ Start
    \/ SkipDirectory
    \/ MirrorDirectory
    \/ VisitFile
    \/ Finish
    \/ CreateZip
    \/ ConvertAgain

Spec == Init /\ [][Next]_vars

(***************************************************************************)
(* Functions examined on their own.  A converter has been constructed and  *)
(* has not started; one function is called on arguments drawn from a       *)
(* bounded set and returns.                                                *)
(***************************************************************************)
\* the converter as __init__ leaves it, nothing started
Constructed ==
    /\ tree = << >>
    /\ pc = "init"
    /\ stack = << >>
    /\ stats = InitStats
    /\ out = Nothing
    /\ processed = {}
    /\ faultLog = {}
    /\ zip = Nothing
    /\ run = 1
    /\ previous = [pc |-> "init", stats |-> InitStats, out |-> Nothing]

converterVars ==
    << tree, pc, stack, stats, out, processed, faultLog, zip, run, previous >>

\* A file's content as runs of equal bytes, [byte, count]: the runs the
\* files of SniffSpec are made of
RunCatalogue ==
    { [byte |-> 0, count |-> 1],
      [byte |-> 1, count |-> 3], [byte |-> 1, count |-> 4],
      [byte |-> 65, count |-> 6], [byte |-> 65, count |-> 7],
      [byte |-> 127, count |-> 2457], [byte |-> 127, count |-> 2458],
      [byte |-> 255, count |-> 5734], [byte |-> 255, count |-> 5735],
      [byte |-> 65, count |-> 8191], [byte |-> 65, count |-> 8192],
      [byte |-> 27, count |-> 1] }

RECURSIVE RunSeqs(_)
RunSeqs(n) ==
    IF n = 0 THEN { << >> }
    ELSE LET shorter == RunSeqs(n - 1)
         IN  shorter \cup { Append(r, x) : r \in shorter, x \in RunCatalogue }

\* the bytes of a file given by its runs
RECURSIVE Expand(_)
Expand(runs) ==
    IF runs = << >> THEN << >>
    ELSE [i \in 1..runs[1].count |-> runs[1].byte] \o Expand(Tail(runs))

\* the files _is_binary_file is called on, and what the environment does
SniffCalls ==
    { [fn |-> "_is_binary_file", runs |-> r, fault |-> f] :
        r \in RunSeqs(MaxRuns), f \in { "none" } \cup SniffFaults }

SniffInit ==
    /\ Constructed
    /\ call \in SniffCalls
    /\ result = NotReturned
    /\ NoProject

\* self._is_binary_file(source_file) returns
IsBinaryFileReturns ==
    /\ call.fn = "_is_binary_file"
    /\ ~result.returned
    /\ result' = Returned(IsBinaryFile([data |-> Expand(call.runs)], call.fault))
    /\ UNCHANGED << converterVars, call, projects, requests, tmpfiles >>

SniffNext == IsBinaryFileReturns

SniffSpec == SniffInit /\ [][SniffNext]_vars

\* the subdirectories of the root whose listing was denied, as the entries
\* of conversion_errors: the k-th one is named d<k>
RECURSIVE DeniedDirectories(_)
DeniedDirectories(n) ==
    IF n = 0 THEN << >>
    ELSE Append(DeniedDirectories(n - 1),
                [kind |-> "Permission denied", path |-> << << "d" >> \o IntToStr(n) >> ])

\* self.stats at the end of a traversal of at most MaxSummaryFiles files in
\* the root, each with one of the three outcomes, and of at most
\* MaxSummaryErrors subdirectories, none of which could be listed
SummaryStats ==
    { [InitStats EXCEPT !.total_files_processed = t,
                        !.files_converted = c,
                        !.files_skipped_binary = b,
                        !.files_skipped_encoding = t - c - b,
                        !.directories_processed = n,
                        !.conversion_errors = DeniedDirectories(n)] :
        t \in 0..MaxSummaryFiles, c \in 0..MaxSummaryFiles, b \in 0..MaxSummaryFiles,
        n \in 0..MaxSummaryErrors }

SummaryCalls ==
    { [fn |-> "_create_conversion_summary", stats |-> s] :
        s \in { x \in SummaryStats : x.files_skipped_encoding >= 0 } }

SummaryInit ==
    /\ Constructed
    /\ call \in SummaryCalls
    /\ result = NotReturned
    /\ NoProject

\* self._create_conversion_summary(output_dir) has written the summary
CreateConversionSummaryReturns ==
    /\ call.fn = "_create_conversion_summary"
    /\ ~result.returned
    /\ \E rate \in SuccessRateLines(call.stats) :
         result' = Returned(SummaryOut(call.stats, rate))
    /\ UNCHANGED << converterVars, call, projects, requests, tmpfiles >>

SummaryNext == CreateConversionSummaryReturns

SummarySpec == SummaryInit /\ [][SummaryNext]_vars

(***************************************************************************)
(* The requests on projects (views.py).  A conversion is followed in three *)
(* steps, so that the requests on different projects interleave: the       *)
(* request is accepted, the source is acquired, converted and packaged,    *)
(* the ConversionResult is written.  What happens to the single files of   *)
(* the source tree is Spec's matter: the conversion of an acquired tree    *)
(* fails only on its output root.                                          *)
(***************************************************************************)
Users == { "u1", "u2" }

ProjectNames == { "x", "y" }

SOURCE_TYPE_CHOICES == { "github", "upload" }

NoPath == << >>

\* create_conversion_zip, lines 427-428
ZipPath(project_name) == << "tmp", project_name, "_converted.zip" >>

\* tempfile.TemporaryDirectory(prefix="conversion_"): the random suffix is
\* taken as never drawn twice, n stands for the suffix of the n-th run
ConversionDir(n) == << "tmp", "conversion_", n >>

\* Project.can_be_scanned
CanBeScanned(project) == project.status \in { "pending_scan", "error" }

\* variant of CanBeConverted: a converted project can be converted again
CanBeConvertedAgain(project) == project.status \in { "scanned", "error", "converted" }

\* Project.can_be_converted
CanBeConverted(project) == project.status \in { "scanned", "error" }

\* project_list, POST: a user creates a project under a name they do not
\* use yet
CreateProject ==
    /\ Len(projects) < MaxProjects
    /\ \E user \in Users, project_name \in ProjectNames,
          source_type \in SOURCE_TYPE_CHOICES :
         /\ ~\E i \in 1..Len(projects) :
                projects[i].user = user /\ projects[i].project_name = project_name
         /\ projects' = Append(projects,
                [user |-> user, project_name |-> project_name,
                 source_type |-> source_type, status |-> "pending_scan",
                 uploaded |-> FALSE, artifact |-> NoPath, download_count |-> 0])
    /\ UNCHANGED << converterVars, call, result, requests, tmpfiles >>

\* upload_code: the archive is saved and the project awaits a scan (a
\* request that is refused or whose save fails changes nothing)
UploadCode ==
    /\ \E p \in 1..Len(projects) :
         /\ projects[p].source_type = "upload"
         /\ projects' = [projects EXCEPT ![p].uploaded = TRUE,
                                          ![p].status = "pending_scan"]
    /\ UNCHANGED << converterVars, call, result, requests, tmpfiles >>

\* scan_project: the scan ends 'scanned', or 'error' when it raises
ScanProject ==
    /\ \E p \in 1..Len(projects) : \E raised \in BOOLEAN :
         /\ CanBeScanned(projects[p])
         /\ projects[p].source_type = "upload" => projects[p].uploaded
         /\ projects' = [projects EXCEPT
                            ![p].status = IF raised THEN "error" ELSE "scanned"]
    /\ UNCHANGED << converterVars, call, result, requests, tmpfiles >>

\* convert_project, lines 266-281: the request is accepted
ConvertAccept ==
    /\ Len(requests) < MaxConversions
    /\ \E p \in 1..Len(projects) :
         /\ CanBeConverted(projects[p])
         /\ projects' = [projects EXCEPT ![p].status = "converting"]
         /\ requests' = Append(requests,
                [project |-> p, pc |-> "accepted", source_ok |-> FALSE,
                 root_ok |-> FALSE, zip_ok |-> FALSE, output_dir |-> NoPath,
                 zip_path |-> NoPath, final |-> "none"])
    /\ UNCHANGED << converterVars, call, result, tmpfiles >>

\* _perform_real_conversion, lines 1010-1014, and convert_project, lines
\* 291-293: the project ends in 'error'
Failed(r, request) ==
    /\ requests' = [requests EXCEPT ![r] = [request EXCEPT !.pc = "done",
                                                          !.final = "error"]]
    /\ projects' = [projects EXCEPT ![requests[r].project].status = "error"]

\* variant of PerformCodebaseConversion: a failure of create_conversion_zip
\* is swallowed
ZipFailureSwallowed(root_ok, zip_ok, zip_path) ==
    IF root_ok
    THEN [success |-> TRUE, zip_path |-> zip_path]
    ELSE [success |-> FALSE, error |-> "output root"]

\* perform_codebase_conversion, lines 459-482: the dictionary returned when
\* the conversion raised (root_ok is false), when create_conversion_zip
\* raised (zip_ok is false; it logs and raises again, lines 443-445), and
\* when neither did
PerformCodebaseConversion(root_ok, zip_ok, zip_path) ==
    IF root_ok /\ zip_ok
    THEN [success |-> TRUE, zip_path |-> zip_path]
    ELSE [success |-> FALSE, error |-> IF root_ok THEN "zip" ELSE "output root"]

\* _perform_real_conversion, lines 951-967: the source is cloned or
\* extracted, perform_codebase_conversion converts it into a fresh
\* temporary directory and create_conversion_zip packages the output (an
\* archive that could not be written is taken to leave no file)
ConvertRun ==
    /\ \E r \in 1..Len(requests) :
         LET project == projects[requests[r].project]
             zip_path == ZipPath(project.project_name)
         IN  /\ requests[r].pc = "accepted"
             /\ \E source_ok, root_ok, zip_ok \in BOOLEAN :
                  /\ (project.source_type = "upload" /\ ~project.uploaded) => ~source_ok
                  /\ ~source_ok => ~root_ok
                  /\ ~root_ok => ~zip_ok
                  /\ LET request ==
                            [requests[r] EXCEPT
                               !.source_ok = source_ok, !.root_ok = root_ok,
                               !.zip_ok = zip_ok,
                               !.output_dir = IF source_ok THEN ConversionDir(r) ELSE NoPath,
                               !.zip_path = IF zip_ok THEN zip_path ELSE NoPath]
                         conversion_result ==
                            IF source_ok
                            THEN PerformCodebaseConversion(root_ok, zip_ok, zip_path)
                            ELSE [success |-> FALSE, error |-> "source"]
                     IN  /\ tmpfiles' = IF zip_ok
                                        THEN (zip_path :> [writer |-> r]) @@ tmpfiles
                                        ELSE tmpfiles
                         \* lines 967-968: raise unless conversion_result['success']
                         /\ IF conversion_result.success
                            THEN /\ requests' = [requests EXCEPT
                                                   ![r] = [request EXCEPT !.pc = "packaged"]]
                                 /\ projects' = projects
                            ELSE Failed(r, request)
    /\ UNCHANGED << converterVars, call, result >>

\* os.remove(path) where os.path.exists(path)
Removed(files, path) == [q \in DOMAIN files \ { path } |-> files[q]]

\* _perform_real_conversion, lines 969-1008: the ConversionResult of the
\* project is created or updated and the project becomes 'converted'; an
\* exception (os.path.getsize of a path that does not exist) ends in 'error'
ConvertRecord ==
    /\ \E r \in 1..Len(requests) :
         LET p == requests[r].project
             zip_path == ZipPath(projects[p].project_name)
             old == projects[p].artifact
             created == old = NoPath
             \* lines 987-988: the old file is removed if it exists
             kept == IF ~created /\ old \in DOMAIN tmpfiles
                     THEN Removed(tmpfiles, old) ELSE tmpfiles
         IN  /\ requests[r].pc = "packaged"
             /\ IF zip_path \notin DOMAIN tmpfiles
                \* line 980: getsize raises while the defaults are built
                THEN Failed(r, requests[r]) /\ tmpfiles' = tmpfiles
                ELSE IF zip_path \notin DOMAIN kept
                \* line 993: getsize raises after the removal
                THEN Failed(r, requests[r]) /\ tmpfiles' = kept
                ELSE /\ tmpfiles' = kept
                     /\ requests' = [requests EXCEPT ![r].pc = "done",
                                                     ![r].final = "converted"]
                     /\ projects' = [projects EXCEPT ![p].artifact = zip_path,
                                                     ![p].status = "converted"]
    /\ UNCHANGED << converterVars, call, result >>

\* download_project, lines 306-346: what the request for project p answers
\* in the current state; the body of a 200 is the content of the file at
\* converted_artifact_path
DownloadResponse(p) ==
    LET project == projects[p]
    IN  IF project.status \notin { "converted", "completed" }
        THEN [status |-> 400]
        ELSE IF project.artifact = NoPath \/ project.artifact \notin DOMAIN tmpfiles
        THEN [status |-> 404]
        ELSE [status |-> 200, body |-> tmpfiles[project.artifact]]

\* download_project answers 200 to the owner of a project: the archive is
\* read and increment_download_count is called (a request answered 400 or
\* 404 changes nothing)
DownloadProject ==
    /\ \E p \in 1..Len(projects) :
         /\ DownloadResponse(p).status = 200
         /\ projects[p].download_count < MaxDownloads
         /\ projects' = [projects EXCEPT ![p].download_count = @ + 1]
    /\ UNCHANGED << converterVars, call, result, requests, tmpfiles >>

WebInit ==
    /\ Constructed
    /\ call = NoCall
    /\ result = NotReturned
    /\ NoProject

WebNext ==
    \/ CreateProject
    \/ UploadCode
    \/ ScanProject
    \/ ConvertAccept
    \/ ConvertRun
    \/ ConvertRecord
    \/ DownloadProject

WebSpec == WebInit /\ [][WebNext]_vars

\* convert_project calls _perform_real_conversion in the request itself
\* (lines 283-296): a request that was accepted runs on until it returns
WebLiveSpec ==
    WebInit /\ [][WebNext]_vars /\ WF_vars(ConvertRun) /\ WF_vars(ConvertRecord)

(***************************************************************************)
(* Vocabulary of the properties, stated on the source tree and on the      *)
(* observable state, independently of the operators above.                 *)
(***************************************************************************)
IsPrefix(p, q) == Len(p) <= Len(q) /\ SubSeq(q, 1, Len(p)) = p

Files == { p \in DOMAIN tree : tree[p].type = "file" }

Directories == { p \in DOMAIN tree : tree[p].type = "dir" }

\* a directory name the specification excludes
ExcludedName(name) == name \in EXCLUDED_DIRS \/ name[1] = "."

\* a path with an excluded directory among its proper ancestors
InsideExcluded(p) == \E k \in 1..(Len(p) - 1) : ExcludedName(p[k])

\* a directory that is excluded itself or lies inside an excluded one
ExcludedDirectory(d) == ExcludedName(d[Len(d)]) \/ InsideExcluded(d)

\* the files the traversal has to visit
VisitableFiles == { f \in Files : ~InsideExcluded(f) }

TenMiB == 10 * 1024 * 1024

RunOver == pc \in { "returned", "zipped", "zip_failed" }

Errors == stats.conversion_errors

\* no entry of conversion_errors comes from a directory
NoDirectoryError == \A i \in 1..Len(Errors) : Errors[i].kind = "File error"

\* the failures injected on path p during this conversion
FaultsOn(p) == { x.op : x \in { y \in faultLog : y.run = run /\ y.path = p } }

\* the output files that come from source file f
OutputsOf(f) ==
    { p \in DOMAIN out : out[p].type = "file"
                         /\ out[p].kind \in { "converted", "placeholder" }
                         /\ out[p].owner = f }

(***************************************************************************)
(* C1.  Once the output root exists, convert_repository_to_text does not   *)
(* raise, whatever fails on a single file or a single subdirectory.        *)
(***************************************************************************)
C1_NeverRaisesAfterRoot == Exists(out, << >>) => pc # "raised"

\* a conversion that met a failure on a file or a directory has returned
C1_Witness ==
    /\ pc = "returned"
    /\ Errors # << >>
    /\ \E x \in faultLog : x.op \in { "stat", "list", "mkdir" }

(***************************************************************************)
(* C2.  In every state of a conversion, files_converted +                  *)
(* files_skipped_binary + files_skipped_encoding <= total_files_processed. *)
(***************************************************************************)
C2_OutcomesBoundedByVisited ==
    stats.files_converted + stats.files_skipped_binary + stats.files_skipped_encoding
        <= stats.total_files_processed

\* during a traversal, one file of each outcome has been counted
C2_Witness ==
    /\ pc = "walk"
    /\ stats.files_converted > 0
    /\ stats.files_skipped_binary > 0
    /\ stats.files_skipped_encoding > 0

(***************************************************************************)
(* C3.  Completeness of the output tree.                                   *)
(***************************************************************************)
\* the directory of the output tree that mirrors the directory of file f
MirrorOf(f) == Parent(f)

\* f has exactly one output file, and it lies in the mirrored directory
HasOneOutput(f) ==
    /\ Cardinality(OutputsOf(f)) = 1
    /\ \A p \in OutputsOf(f) : Parent(p) = MirrorOf(f)

StoppedByGuard(f) ==
    \/ tree[f].size > TenMiB
    \/ Lower(Suffix(BaseName(f))) \in EXCLUDED_EXTENSIONS

\* the output of f is the root's CONVERSION_SUMMARY.txt, which the summary
\* written at the end of the run replaces
ReplacedBySummary(f) ==
    /\ Len(f) = 1
    /\ Stem(BaseName(f)) \o DotTxt = SummaryName
    /\ Exists(out, << SummaryName >>)
    /\ out[<< SummaryName >>].kind = "summary"
    /\ OutputsOf(f) = {}

C4_TotalCountsVisitableFiles ==
    (RunOver /\ NoDirectoryError)
        => stats.total_files_processed = Cardinality(VisitableFiles)

\* a run over a tree with files inside and outside excluded directories
C4_Witness ==
    /\ RunOver /\ NoDirectoryError
    /\ VisitableFiles # {}
    /\ Files \ VisitableFiles # {}
    /\ stats.total_files_processed = Cardinality(VisitableFiles)

(***************************************************************************)
(* C5.  Within one conversion, the output file written for a source file   *)
(* is never overwritten by the output of another source file.              *)
(***************************************************************************)
IsSourceOutput(entry) ==
    entry.type = "file" /\ entry.kind \in { "converted", "placeholder" }

C5_NoOutputOverwritten ==
    [][ run' = run =>
          \A p \in DOMAIN out :
             IsSourceOutput(out[p]) =>
                /\ p \in DOMAIN out'
                /\ IsSourceOutput(out'[p]) => out'[p].owner = out[p].owner ]_vars

\* two files of one directory with the same stem both have their output
C5_Witness ==
    \E f, g \in processed :
       /\ f # g
       /\ Parent(f) = Parent(g)
       /\ Stem(BaseName(f)) = Stem(BaseName(g))
       /\ OutputsOf(f) # {} /\ OutputsOf(g) # {}
       /\ OutputsOf(f) \cap OutputsOf(g) = {}

(***************************************************************************)
(* C6.  A file below an excluded directory (at any depth) is never passed  *)
(* to _process_file, changes no counter, and neither it nor the excluded   *)
(* directory is mirrored in the output tree.                               *)
(***************************************************************************)
\* the directories mirrored so far: the output directories but the root
MirroredDirectories == { p \in DOMAIN out : out[p].type = "dir" /\ p # << >> }

C6_ExcludedNeverVisited ==
    /\ \A f \in Files \ VisitableFiles :
          /\ f \notin processed
          /\ \A p \in DOMAIN out : out[p].owner # f
    /\ \A d \in { x \in Directories : ExcludedDirectory(x) } :
          /\ ~(Exists(out, d) /\ out[d].type = "dir")
          /\ \A p \in DOMAIN out : ~(IsPrefix(d, p) /\ p # d)
    /\ processed \subseteq VisitableFiles
    /\ stats.total_files_processed = Cardinality(processed)
    /\ stats.directories_processed = Cardinality(MirroredDirectories)
    /\ \A d \in MirroredDirectories : out[d].owner = d /\ ~ExcludedDirectory(d)

\* a finished run over a tree whose only file lies two levels below an
\* excluded directory, or below an excluded directory inside a mirrored one
C6_Witness ==
    /\ RunOver
    /\ \E f \in Files : Len(f) = 3 /\ (ExcludedName(f[1]) \/ ExcludedName(f[2]))
    /\ processed = {}
    /\ MirroredDirectories \subseteq { d \in Directories : ~ExcludedDirectory(d) }

(***************************************************************************)
(* C7.  One unreadable file among convertible text files.                  *)
(***************************************************************************)
\* a file the guards let pass and the sniffing takes for text
ConvertibleText(f) ==
    /\ tree[f].size <= TenMiB
    /\ Lower(Suffix(BaseName(f))) \notin EXCLUDED_EXTENSIONS
    /\ \A i \in 1..Len(tree[f].data) : tree[f].data[i] \in text_chars

\* the run is over, every file of the tree is convertible text outside the
\* excluded directories, opening file u failed and nothing else failed
OneUnreadableFile(u) ==
    /\ RunOver /\ NoDirectoryError
    /\ Files = VisitableFiles
    /\ \A f \in Files : ConvertibleText(f)
    /\ u \in Files
    /\ { x \in faultLog : x.run = run } = { Fault(u, "open") }

Extracted(z) ==
    LET dirs == { << >> } \cup
                UNION { { SubSeq(a, 1, k) : k \in 0..(Len(a) - 1) } : a \in DOMAIN z }
    IN  [p \in DOMAIN z \cup dirs |-> IF p \in DOMAIN z THEN z[p] ELSE [type |-> "dir"]]

\* the output tree as a directory listing shows it
Listing(o) ==
    [p \in DOMAIN o |-> IF o[p].type = "dir" THEN [type |-> "dir"] ELSE o[p]]

\* C8 as stated: extracting the archive of an undisturbed run into an empty
\* directory gives the output tree, directories without files included
C8_RoundTrip ==
    (pc = "zipped" /\ faultLog = {}) => Extracted(zip) = Listing(out)

(***************************************************************************)
(* C9.  Two conversions of one source tree give the same result.           *)
(***************************************************************************)
\* C9 as stated: a second undisturbed conversion of the tree, whatever the
\* order in which the directories are enumerated, ends with the counters
\* and the output files of the first one
C9_RunsAgree ==
    (run = 2 /\ pc = "zipped")
        => /\ stats = previous.stats
           /\ out = previous.out

(***************************************************************************)
(* C10.  Size guard: a visited file larger than 10 MiB is counted in       *)
(* files_skipped_binary and not converted, whatever its extension and      *)
(* content; a file of exactly 10 MiB passes on to the extension guard.     *)
(***************************************************************************)
\* this step is _process_file(f, ...) and stat(f) succeeds
Visits(f) ==
    /\ f \notin processed
    /\ f \in processed'
    /\ Fault(f, "stat") \notin faultLog'

RECURSIVE BytesBefore(_, _)
BytesBefore(runs, k) ==
    IF k = 0 THEN 0 ELSE BytesBefore(runs, k - 1) + runs[k].count

\* how many bytes of the k-th run lie at the offsets 0..8191 of the file
InSample(runs, k) ==
    LET offset == BytesBefore(runs, k - 1)
        room == IF offset >= 8192 THEN 0 ELSE 8192 - offset
    IN  IF runs[k].count < room THEN runs[k].count ELSE room

\* a byte outside {7,8,9,10,12,13,27} and outside 0x20..0xFF minus 0x7F
NoTextByte(b) ==
    /\ b \notin { 7, 8, 9, 10, 12, 13, 27 }
    /\ ~(32 <= b /\ b <= 255 /\ b # 127)

RECURSIVE NoTextInSample(_, _)
NoTextInSample(runs, k) ==
    IF k = 0 THEN 0
    ELSE NoTextInSample(runs, k - 1)
         + (IF NoTextByte(runs[k].byte) THEN InSample(runs, k) ELSE 0)

SniffReference(runs, unreadable) ==
    LET size == BytesBefore(runs, Len(runs))
        sample == IF size < 8192 THEN size ELSE 8192
        null == \E k \in 1..Len(runs) : runs[k].byte = 0 /\ InSample(runs, k) > 0
    IN  \/ unreadable
        \/ /\ sample > 0
           /\ (null \/ 10 * NoTextInSample(runs, Len(runs)) > 3 * sample)

Run(b, n) == [byte |-> b, count |-> n]

C11_SniffAgreesWithReference ==
    (call.fn = "_is_binary_file" /\ result.returned) =>
       /\ result.value = SniffReference(call.runs, call.fault # "none")
       /\ call.fault = "none" =>
             \* an empty file is not binary
             /\ call.runs = << >> => ~result.value
             \* one null byte among printable ASCII makes it binary
             /\ call.runs = << Run(65, 7), Run(0, 1) >> => result.value
             \* exactly 30% of bytes that are no text is not binary
             /\ call.runs = << Run(1, 3), Run(65, 7) >> => ~result.value
             /\ call.runs = << Run(1, 4), Run(65, 6) >> => result.value
             \* what follows offset 8191 does not count
             /\ (call.runs # << >> /\ call.runs[1] = Run(65, 8192)) => ~result.value

\* the file of 8192 letters followed by a null byte was sniffed: not binary
C11_Witness ==
    /\ call.fn = "_is_binary_file"
    /\ call.runs = << Run(65, 8192), Run(0, 1) >>
    /\ call.fault = "none"
    /\ result = Returned(FALSE)

(***************************************************************************)
(* C12.  The success rate written to CONVERSION_SUMMARY.txt is             *)
(* files_converted * 100 / max(total_files_processed, 1) with one decimal  *)
(* place: "70.0%" for 7 files converted of 10, "0.0%" for an empty tree.   *)
(***************************************************************************)
DigitValue(c) ==
    CASE c = "0" -> 0 [] c = "1" -> 1 [] c = "2" -> 2 [] c = "3" -> 3 [] c = "4" -> 4
      [] c = "5" -> 5 [] c = "6" -> 6 [] c = "7" -> 7 [] c = "8" -> 8 [] c = "9" -> 9

IsDigit(c) == c \in { "0", "1", "2", "3", "4", "5", "6", "7", "8", "9" }

\* digits, a point, one digit, a percent sign
OneDecimalPercent(line) ==
    /\ Len(line) >= 4
    /\ line[Len(line)] = "%"
    /\ IsDigit(line[Len(line) - 1])
    /\ line[Len(line) - 2] = "."
    /\ \A i \in 1..(Len(line) - 3) : IsDigit(line[i])
    /\ (Len(line) > 4 => line[1] # "0")

RECURSIVE NumberOf(_)
NumberOf(digits) ==
    IF digits = << >> THEN 0
    ELSE 10 * NumberOf(SubSeq(digits, 1, Len(digits) - 1)) + DigitValue(digits[Len(digits)])

\* the value of the line in tenths of a percent
TenthsOf(line) ==
    10 * NumberOf(SubSeq(line, 1, Len(line) - 3)) + DigitValue(line[Len(line) - 1])

C12_SuccessRate ==
    (call.fn = "_create_conversion_summary" /\ result.returned) =>
       LET converted == call.stats.files_converted
           total == call.stats.total_files_processed
           denominator == IF total > 1 THEN total ELSE 1
           line == result.value.success_rate
           gap == TenthsOf(line) * denominator - 1000 * converted
       IN  /\ OneDecimalPercent(line)
           \* within half a tenth of converted * 100 / max(total, 1)
           /\ 2 * gap <= denominator /\ -2 * gap <= denominator
           /\ (total = 10 /\ converted = 7) => line = << "7", "0", ".", "0", "%" >>
           /\ total = 0 => line = << "0", ".", "0", "%" >>

\* the summary of 10 files, 7 converted, 2 skipped as binary, 1 skipped for
\* its encoding, reads 70.0%
C12_Witness ==
    /\ call.fn = "_create_conversion_summary"
    /\ call.stats.total_files_processed = 10
    /\ call.stats.files_converted = 7
    /\ call.stats.files_skipped_binary = 2
    /\ call.stats.files_skipped_encoding = 1
    /\ result.returned
    /\ result.value.success_rate = << "7", "0", ".", "0", "%" >>

(***************************************************************************)
(* C13.  convert_repository_to_text raises only when the output root       *)
(* cannot be prepared; what fails once the root exists is recorded in the  *)
(* statistics and the call returns.                                        *)
(***************************************************************************)
\* the failures injected during this conversion, the packaging excepted
RunFaults == { x \in faultLog : x.run = run /\ x.op # "zip" }

NamedInErrors(path) == \E i \in 1..Len(Errors) : Errors[i].path = path

\* the failure x shows in the counters or in conversion_errors
RecordedInStats(x) ==
    CASE x.op = "stat" ->
           \E i \in 1..Len(Errors) :
              Errors[i].kind = "File error" /\ Errors[i].path = x.path
      [] x.op \in { "open", "read", "write" } ->
           /\ stats.files_skipped_encoding >= 1
           /\ \A p \in OutputsOf(x.path) : out[p].kind # "converted"
      \* a read that failed at some attempts only: the file is counted with
      \* the outcome of the attempts that were left
      [] x.op \in ReadFaults \ { "read" } ->
           stats.files_converted + stats.files_skipped_encoding >= 1
      [] x.op = "list" -> NamedInErrors(x.path)
      [] x.op = "mkdir" -> NamedInErrors(Parent(x.path))
      [] x.op = "summary" -> Errors # << >>
      [] OTHER -> FALSE

RaisesOnlyForRoot ==
    /\ pc = "raised" => (out = Nothing /\ faultLog = { Fault(<< >>, "root") })
    /\ Exists(out, << >>) => pc # "raised"

EndsPackaged(r) ==
    /\ requests[r].pc = "packaged"
    /\ requests[r].source_ok /\ requests[r].root_ok /\ requests[r].zip_ok
    /\ requests'[r].pc = "done"

\* C14 as stated
C14_PackagedConversionEndsConverted ==
    [][ \A r \in 1..Len(requests) :
          EndsPackaged(r) => projects'[requests[r].project].status = "converted" ]_vars

(***************************************************************************)
(* C15.  The conversions of two distinct projects, running together or     *)
(* one after the other, never write to the same path: their output         *)
(* directories differ and their ZIP archive paths differ.                  *)
(***************************************************************************)
\* request r has written its output directory and its archive
HasPackaged(r) == requests[r].pc \in { "packaged", "done" } /\ requests[r].zip_ok

\* C15 as stated
C15_RunsWriteDistinctPaths ==
    \A r, q \in 1..Len(requests) :
       (/\ requests[r].project # requests[q].project
        /\ HasPackaged(r) /\ HasPackaged(q))
          => /\ requests[r].output_dir # requests[q].output_dir
             /\ requests[r].zip_path # requests[q].zip_path

(***************************************************************************)
(* C16.  What follows the header and the blank line of a converted file    *)
(* is the decoded content of the source file, character for character,     *)
(* carriage returns and line endings included.                             *)
(***************************************************************************)
\* the bytes of source file f decoded with `encoding`
DecodedContent(f, encoding) == Decode(encoding, tree[f].data)

\* C16 as stated
C16_ContentVerbatim ==
    \A p \in DOMAIN out :
       (out[p].type = "file" /\ out[p].kind = "converted") =>
          /\ DecodedContent(out[p].owner, out[p].encoding).ok
          /\ out[p].text = DecodedContent(out[p].owner, out[p].encoding).text

(***************************************************************************)
(* C17.  Each call of _process_file records exactly one outcome: one of    *)
(* files_converted, files_skipped_binary, files_skipped_encoding grows by  *)
(* one, or one 'File error' entry is appended, never two of these; so at   *)
(* the end of a run total_files_processed is the sum of the three counters *)
(* and of the number of 'File error' entries.                              *)
(***************************************************************************)
\* this step is _process_file(f, ...)
Processes(f) == f \notin processed /\ f \in processed'

FileErrors(s) ==
    { i \in 1..Len(s.conversion_errors) : s.conversion_errors[i].kind = "File error" }

\* the outcomes recorded by this step: the growth of each counter and the
\* number of entries appended
Recorded ==
    << stats'.files_converted - stats.files_converted,
       stats'.files_skipped_binary - stats.files_skipped_binary,
       stats'.files_skipped_encoding - stats.files_skipped_encoding,
       Len(stats'.conversion_errors) - Len(stats.conversion_errors) >>

OneOutcome ==
    /\ Recorded \in { << 1, 0, 0, 0 >>, << 0, 1, 0, 0 >>, << 0, 0, 1, 0 >>, << 0, 0, 0, 1 >> }
    /\ SubSeq(stats'.conversion_errors, 1, Len(Errors)) = Errors

C17_OneOutcomePerFile ==
    /\ [][ \A f \in Files :
             Processes(f) =>
                /\ OneOutcome
                /\ Recorded[4] = 1 =>
                      stats'.conversion_errors[Len(Errors) + 1]
                         = [kind |-> "File error", path |-> f] ]_vars
    /\ [](RunOver =>
             stats.total_files_processed
                = stats.files_converted + stats.files_skipped_binary
                  + stats.files_skipped_encoding + Cardinality(FileErrors(stats)))

\* a run over three files: one converted, one skipped, one with a
\* 'File error' entry
C17_Witness ==
    /\ RunOver
    /\ stats.total_files_processed = 3
    /\ stats.files_converted = 1
    /\ stats.files_skipped_binary + stats.files_skipped_encoding = 1
    /\ Cardinality(FileErrors(stats)) = 1

(***************************************************************************)
(* C18.  Every call of _process_file increments total_files_processed and  *)
(* adds the size of the file to total_size_bytes, once, before any skip    *)
(* decision.                                                               *)
(***************************************************************************)
RECURSIVE SumOfSizes(_)
SumOfSizes(S) ==
    IF S = {} THEN 0
    ELSE LET f == CHOOSE x \in S : TRUE
         IN  tree[f].size + SumOfSizes(S \ { f })

\* C18 as stated: the size is added whatever the outcome, a 'File error'
\* included, and total_size_bytes ends as the sum over all counted files
C18_Original ==
    /\ [][ \A f \in Files :
             Processes(f) =>
                /\ stats'.total_files_processed = stats.total_files_processed + 1
                /\ stats'.total_size_bytes = stats.total_size_bytes + tree[f].size ]_vars
    /\ [](RunOver => stats.total_size_bytes = SumOfSizes(processed))

\* the counted files whose size could be read
Measured == { f \in processed : "stat" \notin FaultsOn(f) }

\* C18 as amended: every call increments total_files_processed; the size
\* is added once, before any skip decision and whatever the later outcome,
\* when stat succeeds; when stat fails nothing is added and the file has a
\* 'File error' entry; total_size_bytes ends as the sum of the sizes of
\* the counted files whose stat succeeded
C18_SizeAddedOnceWhenMeasured ==
    /\ [][ \A f \in Files :
             Processes(f) =>
                /\ stats'.total_files_processed = stats.total_files_processed + 1
                /\ IF Visits(f)
                   THEN stats'.total_size_bytes = stats.total_size_bytes + tree[f].size
                   ELSE /\ stats'.total_size_bytes = stats.total_size_bytes
                        /\ Recorded = << 0, 0, 0, 1 >> ]_vars
    /\ [](stats.total_size_bytes = SumOfSizes(Measured))

\* a run over a file whose stat failed and a file the size guard skipped:
\* both counted, the size of the second one added
C18_Witness ==
    /\ RunOver
    /\ \E f, g \in processed :
         /\ "stat" \in FaultsOn(f)
         /\ tree[g].size > TenMiB /\ FaultsOn(g) = {}
         /\ stats.total_files_processed = 2
         /\ stats.total_size_bytes = tree[g].size

(***************************************************************************)
(* C19.  When listing a non-excluded subdirectory D fails with a           *)
(* permission error, exactly one entry naming D is appended to             *)
(* conversion_errors and the entries of D's parent that were not visited   *)
(* yet are still processed, as if D had been empty.                        *)
(***************************************************************************)
\* listing subdirectory D failed with PermissionError during this
\* conversion, and the environment made nothing else fail
OnlyListingDenied(D) ==
    /\ D \in Directories /\ D # << >>
    /\ RunFaults = { Fault(D, "list") }
    /\ \E i \in 1..Len(Errors) : Errors[i].kind = "Permission denied"

\* the entries of conversion_errors that name path p
EntriesNaming(p) == { i \in 1..Len(Errors) : Errors[i].path = p }

Below(D, p) == IsPrefix(D, p) /\ p # D

\* the entries the active calls of _process_directory have yet to visit
Pending(stk) ==
    UNION { { Append(stk[k].src, name) : name \in stk[k].todo } : k \in 1..Len(stk) }

\* this step is the listing of subdirectory D failing with PermissionError
ListingDenied(D) ==
    /\ D # << >>
    /\ Fault(D, "list") \notin faultLog
    /\ Fault(D, "list") \in faultLog'
    /\ Len(stats'.conversion_errors) > Len(Errors)
    /\ stats'.conversion_errors[Len(stats'.conversion_errors)].kind = "Permission denied"

\* the step leaves what D being empty would leave, and one more entry
ContinuesPastDenied ==
    \A D \in Directories :
       ListingDenied(D) =>
          /\ stats'.conversion_errors
                = Append(Errors, [kind |-> "Permission denied", path |-> D])
          /\ D \in Pending(stack)
          /\ Pending(stack') = Pending(stack) \ { D }
          /\ pc' = "walk"
          /\ processed' = processed
          /\ stats'.directories_processed = stats.directories_processed + 1
          /\ out' = (D :> [type |-> "dir", kind |-> "dir", owner |-> D]) @@ out

EndsAsIfEmpty ==
    \A D \in Directories :
       OnlyListingDenied(D) =>
          /\ Cardinality(EntriesNaming(D)) = 1
          /\ \A i \in EntriesNaming(D) : Errors[i].kind = "Permission denied"
          /\ pc # "raised"
          /\ \A f \in processed : ~Below(D, f)
          /\ \A d \in MirroredDirectories : ~Below(D, d)
          \* the run is over and met no other error
          /\ (RunOver /\ Len(Errors) = 1) =>
                /\ processed = { f \in VisitableFiles : ~Below(D, f) }
                /\ MirroredDirectories
                      = { d \in Directories : ~ExcludedDirectory(d) /\ ~Below(D, d) }
                /\ stats.total_files_processed = Cardinality(processed)
                /\ stats.directories_processed = Cardinality(MirroredDirectories)
                /\ \A f \in processed :
                      ~StoppedByGuard(f) => HasOneOutput(f) \/ ReplacedBySummary(f)

C19_ListingDeniedSkipsOnlyD == [][ContinuesPastDenied]_vars /\ []EndsAsIfEmpty

\* listing D has just failed, the loop over D's parent has entries left,
\* and D is not empty
C19_Witness ==
    \E D \in Directories :
       /\ OnlyListingDenied(D)
       /\ pc = "walk" /\ stack # << >>
       /\ Top.src = Parent(D)
       /\ Top.todo # {}
       /\ \E f \in Files : Below(D, f)

(***************************************************************************)
(* C20.  When an error other than a permission error is raised while       *)
(* _process_directory handles one entry of a directory D (creating the     *)
(* mirrored subdirectory fails, a converted file of that name exists), the *)
(* error is appended to conversion_errors and the entries of D that were   *)
(* not visited yet are still processed.                                    *)
(***************************************************************************)
\* this step appends a 'Directory error' entry for an exception raised
\* while an entry of directory D was handled, not while D was listed
EntryRaised(D) ==
    /\ Len(stats'.conversion_errors) = Len(Errors) + 1
    /\ stats'.conversion_errors[Len(Errors) + 1]
          = [kind |-> "Directory error", path |-> D]
    /\ \A x \in faultLog' \ faultLog : x.op # "list"

\* C20 as stated
C20_ContinuesPastEntryError ==
    [][ \A D \in Directories :
          EntryRaised(D) =>
             \E item \in Pending(stack) :
                /\ Parent(item) = D
                /\ Pending(stack') = Pending(stack) \ { item } ]_vars

(***************************************************************************)
(* C21.  A visited file that is larger than 10 MiB or has an excluded      *)
(* extension (compared in lower case) is stopped before any sniffing or    *)
(* decoding: files_skipped_binary grows by one and nothing is written.  At *)
(* the end of a run files_skipped_binary is the number of such files.      *)
(***************************************************************************)
\* the step for a file a guard stops
GuardStops ==
    \A f \in Files :
       (Visits(f) /\ StoppedByGuard(f)) =>
          /\ Recorded = << 0, 1, 0, 0 >>
          /\ out' = out

\* the visited files a guard applies to
GuardedVisited == { f \in processed : StoppedByGuard(f) }

\* C21 as stated: the count is over every visited file that is too large or
\* has an excluded extension
C21_Original ==
    /\ [][GuardStops]_vars
    /\ [](RunOver => stats.files_skipped_binary = Cardinality(GuardedVisited))

\* C21 as amended: the count is over the visited files whose stat
\* succeeded; a file whose stat fails is counted by no guard and has a
\* 'File error' entry, whatever its size and extension
C21_GuardsCountMeasuredFiles ==
    /\ [][GuardStops]_vars
    /\ [][ \A f \in Files :
             (Processes(f) /\ ~Visits(f)) => Recorded = << 0, 0, 0, 1 >> ]_vars
    /\ [](stats.files_skipped_binary = Cardinality(GuardedVisited \cap Measured))

\* a run that skipped a file with an upper-case excluded extension and a
\* file over the size limit, and converted a third file
C21_Witness ==
    /\ RunOver
    /\ \E f, g \in processed :
         /\ Suffix(BaseName(f)) # Lower(Suffix(BaseName(f)))
         /\ Lower(Suffix(BaseName(f))) \in EXCLUDED_EXTENSIONS
         /\ tree[g].size > TenMiB
         /\ Lower(Suffix(BaseName(g))) \notin EXCLUDED_EXTENSIONS
         /\ FaultsOn(f) = {} /\ FaultsOn(g) = {}
    /\ stats.files_skipped_binary = 2
    /\ stats.files_converted = 1
    /\ \A p \in DOMAIN out : out[p].type = "file" => out[p].kind \in { "converted", "summary" }

(***************************************************************************)
(* C22.  A file that passes both guards and that the sniffing classifies   *)
(* binary gets a 'Binary file' placeholder, does not increment             *)
(* files_converted, and is counted like a file the extension guard stops:  *)
(* in files_skipped_binary and not in files_skipped_encoding.              *)
(***************************************************************************)
\* the content of f, shorter than the sample, holds a null byte or more
\* than 30% of bytes that are not text
BinaryContent(f) ==
    LET data == tree[f].data
        no_text == { i \in 1..Len(data) : NoTextByte(data[i]) }
    IN  /\ Len(data) > 0
        /\ Len(data) <= 8192
        /\ \/ \E i \in 1..Len(data) : data[i] = 0
           \/ 10 * Cardinality(no_text) > 3 * Len(data)

\* this step is _process_file(f, ...) with nothing failing
VisitsUndisturbed(f) == Visits(f) /\ faultLog' = faultLog

\* the step wrote a placeholder with this reason for f, at a path that did
\* not exist
WritesPlaceholder(f, reason) ==
    \E p \in DOMAIN out' \ DOMAIN out :
       /\ out' = (p :> out'[p]) @@ out
       /\ out'[p].type = "file"
       /\ out'[p].kind = "placeholder"
       /\ out'[p].owner = f
       /\ out'[p].reason = reason

\* C22 as stated
C22_SniffedBinaryCountsAsBinary ==
    [][ \A f \in Files :
          (VisitsUndisturbed(f) /\ ~StoppedByGuard(f) /\ BinaryContent(f)) =>
             /\ WritesPlaceholder(f, "Binary file")
             /\ stats'.files_converted = stats.files_converted
             /\ stats'.files_skipped_binary = stats.files_skipped_binary + 1
             /\ stats'.files_skipped_encoding = stats.files_skipped_encoding ]_vars

\* what the claim says of the placeholder and of files_converted alone
C22_SniffedBinaryGetsPlaceholder ==
    [][ \A f \in Files :
          (VisitsUndisturbed(f) /\ ~StoppedByGuard(f) /\ BinaryContent(f)) =>
             /\ WritesPlaceholder(f, "Binary file")
             /\ stats'.files_converted = stats.files_converted ]_vars

(***************************************************************************)
(* C23.  A file that passes both guards, is sniffed as text and is read    *)
(* and written without I/O error is converted under the first encoding of  *)
(* utf-8, utf-8-sig, latin-1, cp1252, iso-8859-1 that decodes it, which is *)
(* one of the first three.  The 'Could not decode with any encoding'       *)
(* placeholder is written only when reading or writing fails.              *)
(***************************************************************************)
ClaimedOrder == << "utf-8", "utf-8-sig", "latin-1", "cp1252", "iso-8859-1" >>

\* the positions of the encodings that decode the bytes of f
Decoding(f) == { i \in 1..5 : DecodedContent(f, ClaimedOrder[i]).ok }

FirstDecoding(f) == CHOOSE i \in Decoding(f) : \A j \in Decoding(f) : i <= j

\* the step wrote a converted file for f, at a path that did not exist,
\* with this encoding in its header
WritesConverted(f, encoding) ==
    \E p \in DOMAIN out' \ DOMAIN out :
       /\ out' = (p :> out'[p]) @@ out
       /\ out'[p].type = "file"
       /\ out'[p].kind = "converted"
       /\ out'[p].owner = f
       /\ out'[p].encoding = encoding

ConvertsUnderFirstDecoding ==
    \A f \in Files :
       (VisitsUndisturbed(f) /\ ~StoppedByGuard(f) /\ ~BinaryContent(f)) =>
          /\ Decoding(f) # {}
          /\ FirstDecoding(f) <= 3
          /\ WritesConverted(f, ClaimedOrder[FirstDecoding(f)])
          /\ Recorded = << 1, 0, 0, 0 >>

\* the attempts of this step at which reading f or writing its target
\* failed with an I/O error
IOFailedAt(f) ==
    UNION { IF x.op = "write" THEN 1..5 ELSE FailingReads(x.op) :
              x \in { y \in faultLog' : y.run = run /\ y.path = f } }

CouldNotDecode == "Could not decode with any encoding"

\* C23 as stated: the placeholder takes an I/O failure at all five attempts
C23_Original ==
    /\ [][ConvertsUnderFirstDecoding]_vars
    /\ [][ \A f \in Files :
             (Processes(f) /\ WritesPlaceholder(f, CouldNotDecode))
                => IOFailedAt(f) = 1..5 ]_vars

\* C23 as amended: the placeholder takes a failure at each of the five
\* attempts, by a decode error (utf-8, utf-8-sig and cp1252 only) or by an
\* I/O error; latin-1 and iso-8859-1 decode every byte sequence, so the
\* third and the fifth attempt fail by an I/O error
C23_PlaceholderTakesFailedFallbacks ==
    /\ [][ConvertsUnderFirstDecoding]_vars
    /\ [][ \A f \in Files :
             (Processes(f) /\ WritesPlaceholder(f, CouldNotDecode)) =>
                /\ \A i \in 1..5 : i \in IOFailedAt(f) \/ i \notin Decoding(f)
                /\ { 3, 5 } \subseteq IOFailedAt(f)
                /\ { 3, 5 } \subseteq Decoding(f) ]_vars

\* a run that converted one file under latin-1, the first two encodings
\* failing to decode it, and wrote the placeholder for a file of the same
\* kind whose reads failed at the third and the fifth attempt only
C23_Witness ==
    /\ RunOver
    /\ \E p, q \in DOMAIN out :
         /\ out[p].type = "file" /\ out[p].kind = "converted"
         /\ out[p].encoding = "latin-1"
         /\ Decoding(out[p].owner) = { 3, 4, 5 }
         /\ out[q].type = "file" /\ out[q].kind = "placeholder"
         /\ out[q].reason = CouldNotDecode
         /\ Decoding(out[q].owner) = { 3, 5 }
         /\ FaultsOn(out[q].owner) = { "read_fallbacks" }

(***************************************************************************)
(* C24.  The output of a source file is named after its name without the   *)
(* final extension, plus '.txt'; where that path exists the name is        *)
(* stem_k.txt for the smallest k >= 1 such that stem_k.txt does not exist. *)
(* The path chosen did not exist when it was chosen.                       *)
(***************************************************************************)
\* the k-th numbered name for source file f, in the directory mirroring
\* the one of f
NumberedName(f, k) ==
    Append(Parent(f), Stem(BaseName(f)) \o << "_" >> \o IntToStr(k) \o DotTxt)

PlainName(f) == Append(Parent(f), Stem(BaseName(f)) \o DotTxt)

\* p is the path the rule gives f in output tree o
IsNamedByRule(o, f, p) ==
    IF PlainName(f) \notin DOMAIN o
    THEN p = PlainName(f)
    ELSE \E k \in 1..(MaxNodes + 1) :
            /\ p = NumberedName(f, k)
            /\ p \notin DOMAIN o
            /\ \A j \in 1..(k - 1) : NumberedName(f, j) \in DOMAIN o

C24_OutputNaming ==
    [][ \A f \in Files :
          Processes(f) =>
             \A p \in DOMAIN out' :
                (p \notin DOMAIN out \/ out'[p] # out[p]) =>
                   /\ p \notin DOMAIN out
                   /\ out'[p].type = "file" /\ out'[p].owner = f
                   /\ IsNamedByRule(out, f, p) ]_vars

\* the plain name and the first numbered name were taken: an output was
\* named stem_2.txt
C24_Witness ==
    \E p \in DOMAIN out :
       /\ IsSourceOutput(out[p])
       /\ p = NumberedName(out[p].owner, 2)
       /\ PlainName(out[p].owner) \in DOMAIN out
       /\ NumberedName(out[p].owner, 1) \in DOMAIN out

(***************************************************************************)
(* C25.  The errors section of CONVERSION_SUMMARY.txt lists the first      *)
(* min(n, 10) of the n entries of conversion_errors, in order; for n > 10  *)
(* one line with the number n - 10 follows; for n <= 10 there is no such   *)
(* line and for n = 0 no section.  The list in the statistics is not cut.  *)
(***************************************************************************)
Min(a, b) == IF a < b THEN a ELSE b

\* the section `lines` is the one claimed for the list `errors`
IsClaimedSection(lines, errors) ==
    LET n == Len(errors)
        shown == Min(n, 10)
    IN  IF n = 0 THEN lines = << >>
        ELSE /\ Len(lines) = 1 + shown + (IF n > 10 THEN 1 ELSE 0)
             /\ lines[1].line = "heading"
             /\ \A i \in 1..shown :
                   lines[1 + i].line = "error" /\ lines[1 + i].error = errors[i]
             /\ n > 10 =>
                   /\ lines[shown + 2].line = "more"
                   /\ lines[shown + 2].count = n - 10

C25_ErrorsSection ==
    /\ [](result.returned =>
            /\ IsClaimedSection(result.value.errors, call.stats.conversion_errors)
            /\ result.value.stats.conversion_errors = call.stats.conversion_errors)
    /\ [][call'.stats = call.stats]_vars

\* a summary written for 12 errors: ten listed, "2 more"
C25_Witness ==
    /\ result.returned
    /\ Len(call.stats.conversion_errors) = 12
    /\ Len(result.value.errors) = 12
    /\ result.value.errors[12] = [line |-> "more", count |-> 2]
    /\ result.value.errors[11].error = call.stats.conversion_errors[10]

(***************************************************************************)
(* C26.  When create_conversion_zip raises, the conversion request ends:   *)
(* the project becomes 'error', its ConversionResult is neither created    *)
(* nor updated, and the request never ends 'converted'.                    *)
(***************************************************************************)
\* in this step request r converted its source and failed to write the
\* archive
ZipRaises(r) ==
    /\ requests[r].pc = "accepted"
    /\ requests'[r].pc # "accepted"
    /\ requests'[r].root_ok
    /\ ~requests'[r].zip_ok

C26_ZipFailureIsTerminal ==
    /\ [][ \A r \in 1..Len(requests) :
             ZipRaises(r) =>
                /\ requests'[r].pc = "done"
                /\ requests'[r].final = "error"
                /\ projects'[requests[r].project].status = "error"
                /\ projects'[requests[r].project].artifact
                      = projects[requests[r].project].artifact ]_vars
    /\ [][ \A r \in 1..Len(requests) :
             (requests[r].root_ok /\ ~requests[r].zip_ok)
                => requests'[r] = requests[r] ]_vars
    /\ [](\A r \in 1..Len(requests) :
            (requests[r].root_ok /\ ~requests[r].zip_ok) => requests[r].final = "error")

\* the second conversion of a converted project failed to write its
\* archive: the project is in 'error' and keeps the ConversionResult of
\* the first conversion
C26_Witness ==
    \E r, q \in 1..Len(requests) :
       /\ r # q
       /\ requests[r].project = requests[q].project
       /\ requests[q].final = "converted"
       /\ requests[r].root_ok /\ ~requests[r].zip_ok
       /\ requests[r].final = "error"
       /\ projects[requests[r].project].status = "error"
       /\ projects[requests[r].project].artifact = requests[q].zip_path

(***************************************************************************)
(* C27.  Every directory below the source root that the traversal reaches  *)
(* and that is not excluded is mirrored and counted in                     *)
(* directories_processed before its entries are processed, also when it is *)
(* empty, unreadable or holds only skipped files.  After a run with no     *)
(* directory-level error directories_processed is the number of            *)
(* non-excluded directories strictly below the root.                       *)
(***************************************************************************)
\* the entries the loops of the active calls no longer hold after this step
Handled == Pending(stack) \ Pending(stack')

\* this step mirrors directory D and counts it
MirrorsAndCounts(D) ==
    /\ D \notin DOMAIN out
    /\ out' = (D :> [type |-> "dir", kind |-> "dir", owner |-> D]) @@ out
    /\ stats'.directories_processed = stats.directories_processed + 1

\* in this step of an undisturbed run the traversal reaches a directory
\* that is not excluded
ReachesDirectory ==
    /\ pc = "walk"
    /\ faultLog' = {}
    /\ processed' = processed
    /\ \E D \in Handled : D \in Directories /\ ~ExcludedName(BaseName(D))

\* the directories that have to be mirrored
MirrorableDirectories == { d \in Directories : ~ExcludedDirectory(d) }

CountsMirrorableDirectories ==
    (RunOver /\ Errors = << >>) =>
       /\ stats.directories_processed = Cardinality(MirrorableDirectories)
       /\ MirroredDirectories = MirrorableDirectories

\* C27 as stated
C27_EveryReachedDirectoryMirrored ==
    /\ [][ ReachesDirectory =>
             \E D \in Handled :
                /\ D \in Directories /\ ~ExcludedName(BaseName(D))
                /\ MirrorsAndCounts(D) ]_vars
    /\ []CountsMirrorableDirectories

\* this step enters directory D: its entries become those of the
\* innermost loop, or listing it fails
Enters(D) ==
    \/ /\ stack' # << >>
       /\ stack'[Len(stack')].src = D
       /\ (stack = << >> \/ Top.src # D)
       /\ Len(stack') > Len(stack)
    \/ Fault(D, "list") \in faultLog' \ faultLog

\* what holds of the claim: a directory is mirrored and counted in the step
\* that enters it, so before any of its entries is processed, and the
\* count at the end of a run without directory-level error is as claimed
C27_MirroredWhenEntered ==
    /\ [][ \A D \in Directories : (D # << >> /\ Enters(D)) => MirrorsAndCounts(D) ]_vars
    /\ [](\A p \in processed \cup MirroredDirectories :
            \A k \in 1..(Len(p) - 1) : SubSeq(p, 1, k) \in MirroredDirectories)
    /\ []CountsMirrorableDirectories

(***************************************************************************)
(* C28.  Writing CONVERSION_SUMMARY.txt never replaces the output of a     *)
(* source file: every converted or placeholder file written during the     *)
(* traversal is there, with its own content, when                          *)
(* convert_repository_to_text returns.                                     *)
(***************************************************************************)
\* C28 as stated
C28_SummaryReplacesNoOutput ==
    [][ run' = run =>
          \A p \in DOMAIN out :
             IsSourceOutput(out[p]) => (p \in DOMAIN out' /\ out'[p] = out[p]) ]_vars

\* what holds: an output is replaced only by the summary, and only at the
\* path CONVERSION_SUMMARY.txt of the output root
C28_OnlyRootSummaryReplaced ==
    [][ run' = run =>
          \A p \in DOMAIN out :
             IsSourceOutput(out[p]) =>
                /\ p \in DOMAIN out'
                /\ out'[p] # out[p] =>
                      (p = << SummaryName >> /\ out'[p].kind = "summary") ]_vars

(***************************************************************************)
(* C29.  A download of project P returns an archive that a conversion of P *)
(* produced; a conversion of another project Q never changes the bytes a   *)
(* later download of P returns.                                            *)
(***************************************************************************)
\* this step is a download of project p answered 200
Downloads(p) ==
    /\ p \in 1..Len(projects)
    /\ projects'[p].download_count = projects[p].download_count + 1

\* the archive was written by a conversion of project p
ProducedFor(body, p) == requests[body.writer].project = p

\* this step belongs to a conversion of a project other than p
ConvertsOther(p) ==
    \E r \in 1..Len(requests) :
       /\ requests[r].project # p
       /\ requests'[r] # requests[r]

\* C29 as stated
C29_DownloadsAreIsolated ==
    /\ [][ \A p \in 1..Len(projects) :
             Downloads(p) => ProducedFor(DownloadResponse(p).body, p) ]_vars
    /\ [][ \A p \in 1..Len(projects) :
             (ConvertsOther(p) /\ DownloadResponse(p).status = 200)
                => DownloadResponse(p)' = DownloadResponse(p) ]_vars

\* what holds when no two projects have the same name: every download
\* returns an archive written by a conversion of the project itself
C29_IsolatedUnderDistinctNames ==
    [][ (\A p, q \in 1..Len(projects) :
            p # q => projects[p].project_name # projects[q].project_name)
        => \A p \in 1..Len(projects) :
              Downloads(p) => ProducedFor(DownloadResponse(p).body, p) ]_vars

(***************************************************************************)
(* C30.  convert_project accepts a request only for a project in status    *)
(* 'scanned' or 'error'; a request that is rejected changes neither the    *)
(* status nor the ConversionResult; an accepted request sets 'converting'  *)
(* and ends with 'converted' or 'error': no project is left 'converting'   *)
(* once its requests have returned.                                        *)
(***************************************************************************)
\* this step accepts a convert_project request for project p
Accepts(p) ==
    /\ Len(requests') = Len(requests) + 1
    /\ requests'[Len(requests')].project = p

\* this step is the return of request r
Returns(r) == requests[r].pc # "done" /\ requests'[r].pc = "done"

\* a request of project p is running
Running(p) == \E r \in 1..Len(requests) : requests[r].project = p /\ requests[r].pc # "done"

StatusProtocol ==
    \A p \in 1..Len(projects) :
       /\ Accepts(p) =>
             /\ projects[p].status \in { "scanned", "error" }
             /\ projects'[p].status = "converting"
       \* no request is accepted in another status, and nothing else sets
       \* 'converting'
       /\ projects[p].status \notin { "scanned", "error" } =>
             /\ ~Accepts(p)
             /\ projects'[p].status = "converting" => projects[p].status = "converting"
       /\ \A r \in 1..Len(requests) :
             (requests[r].project = p /\ Returns(r)) =>
                /\ projects'[p].status \in { "converted", "error" }
                /\ requests'[r].final = projects'[p].status

C30_ConvertProjectProtocol ==
    /\ [][StatusProtocol]_vars
    /\ [](\A p \in 1..Len(projects) : projects[p].status = "converting" => Running(p))
    /\ \A r \in 1..MaxConversions :
          (Len(requests) >= r) ~> (Len(requests) >= r /\ requests[r].pc = "done")

\* a project whose first conversion ended 'error' was accepted again and
\* ended 'converted'
C30_Witness ==
    \E r, q \in 1..Len(requests) :
       /\ r < q
       /\ requests[r].project = requests[q].project
       /\ requests[r].final = "error"
       /\ requests[q].final = "converted"
       /\ projects[requests[q].project].status = "converted"

=============================================================================
